---- MODULE Spec2Model ----
(***************************************************************************)
(* Model of the two sequential multi-agent demo pipelines:                 *)
(*   - src/autogen/autogen_simple_demo.py  (interview-platform workflow,   *)
(*     four phases research -> analysis -> blueprint -> review)            *)
(*   - src/crewai/crewai_demo.py           (travel-planning crew, four     *)
(*     tasks flight -> hotel -> itinerary -> budget, run by crew.kickoff)  *)
(*                                                                         *)
(* A text is a sequence of tokens (strings).  A literal piece of a prompt  *)
(* template is one token; the text returned by the completion boundary for *)
(* a stage is "STAGE:" , <stage id> followed by up to MaxBody free tokens, *)
(* or the empty text; message.content may also be None.  The stage tag     *)
(* makes the stage that produced a text recognisable inside a message.     *)
(*                                                                         *)
(* crew.kickoff is library code: the script fixes the task list and        *)
(* process="sequential"; a task is modelled as one request that returns    *)
(* the task's output or raises, the agent loop inside it is not modelled.  *)
(***************************************************************************)
EXTENDS Integers, Sequences, FiniteSets, TLC

(* ------------------------------- bounds -------------------------------- *)
\* number of free tokens that may follow the stage tag in a returned text
MaxBody == 1

\* how far below and above the preview threshold the lengths of the long texts range
Margin == 2

\* the free tokens a returned text is made of
Chars == {"x"}

(* --------------------------- program constants ------------------------- *)
\* the preview threshold of every phase: text[:500] + "..." if len(text) > 500
PreviewLimit == 500

\* the four phases of SimpleInterviewPlatformWorkflow.run, in call order
AutogenStages == <<"research", "analysis", "blueprint", "review">>

\* the four tasks handed to Crew(tasks=[...], process="sequential")
CrewStages == <<"flight", "hotel", "itinerary", "budget">>

Pipelines == {"autogen", "crewai"}

\* subject parameters main() may be called with (the first of each is the default)
Destinations == {"Iceland", "Japan"}
Durations == {"5 days", "7 days"}

VARIABLES
    pipeline,   \* which script is running
    env,        \* the environment: is the OpenAI client importable, does the configuration validate
    params,     \* subject parameters of main() (crewai)
    pc,         \* position of the script
    idx,        \* index of the phase / task being executed (0 before the first)
    started,    \* ids of the stages whose execution has begun, in order
    calls,      \* completion calls issued so far, in order
    outputs,    \* the context: insertion-ordered mapping stage id -> artifact
    result,     \* crewai: the value returned by crew.kickoff
    file,       \* the output file of this run
    log,        \* what has been printed, in order
    err,        \* the exception being propagated / handled ("none" if none)
    exitCode    \* "running", or the exit status of the process

vars == <<pipeline, env, params, pc, idx, started, calls, outputs, result, file, log, err, exitCode>>

(* ------------------------------- values -------------------------------- *)
\* message.content is None
NoneVal == [isNone |-> TRUE, text |-> <<>>]

\* message.content is the string t
Str(t) == [isNone |-> FALSE, text |-> t]

RECURSIVE SeqsUpTo(_, _)
\* all sequences over S of length at most n
SeqsUpTo(S, n) ==
    IF n = 0 THEN {<<>>}
    ELSE LET shorter == SeqsUpTo(S, n - 1)
         IN shorter \cup {Append(t, c) : t \in {u \in shorter : Len(u) = n - 1}, c \in S}

\* the text a stub completion boundary echoes for stage s: "STAGE:<id>"
StubText(s) == <<"STAGE:", s>>

\* the texts the completion boundary may return for the call of stage s
Texts(s) == {<<>>} \cup {StubText(s) \o b : b \in SeqsUpTo(Chars, MaxBody)}

\* the values response.choices[0].message.content may take for the call of stage s
Contents(s) == {NoneVal} \cup {Str(t) : t \in Texts(s)}

\* t occurs in m as a contiguous run of tokens
Contains(m, t) ==
    \E i \in 0..(Len(m) - Len(t)) : SubSeq(m, i + 1, i + Len(t)) = t

(* ------------------------- the context (a dict) ------------------------ *)
Keys(d) == {d[i].key : i \in 1..Len(d)}

HasKey(d, k) == k \in Keys(d)

\* d[k] for a key that is present
Get(d, k) == (CHOOSE i \in 1..Len(d) : d[i].key = k) \* index of the entry

Value(d, k) == d[Get(d, k)].value

\* d[k] = v : replaces the value of a present key in place, else appends the entry
Put(d, k, v) ==
    IF HasKey(d, k)
    THEN [i \in 1..Len(d) |-> IF d[i].key = k THEN [key |-> k, value |-> v] ELSE d[i]]
    ELSE Append(d, [key |-> k, value |-> v])

(* --------------------------- prompt templates -------------------------- *)
Lit(t) == [kind |-> "lit", val |-> t]

Ref(k) == [kind |-> "ref", val |-> k]

\* a mutant of Template: every phase threads all the earlier artifacts forward
TemplateCumulative(s) ==
    CASE s = "research"  -> <<Lit("Analyze the current market for AI-powered interview platforms.")>>
      [] s = "analysis"  -> <<Lit("Market research findings:\n"), Ref("research"),
                              Lit("\n\nNow identify market opportunities and gaps.")>>
      [] s = "blueprint" -> <<Lit("Market Analysis:\n"), Ref("research"), Ref("analysis"),
                              Lit("\n\nCreate a product blueprint for our platform.")>>
      [] s = "review"    -> <<Lit("Product Blueprint:\n"), Ref("research"), Ref("analysis"), Ref("blueprint"),
                              Lit("\n\nProvide strategic review and recommendations.")>>

\* the f-string user_message of each phase: literal pieces and {self.outputs[key]} references
Template(s) ==
    CASE s = "research"  -> <<Lit("Analyze the current market for AI-powered interview platforms.")>>
      [] s = "analysis"  -> <<Lit("Market research findings:\n"), Ref("research"),
                              Lit("\n\nNow identify market opportunities and gaps.")>>
      [] s = "blueprint" -> <<Lit("Market Analysis:\n"), Ref("analysis"),
                              Lit("\n\nCreate a product blueprint for our platform.")>>
      [] s = "review"    -> <<Lit("Product Blueprint:\n"), Ref("blueprint"),
                              Lit("\n\nProvide strategic review and recommendations.")>>

\* the keys of self.outputs the template of phase s reads
TemplateRefs(s) == {Template(s)[i].val : i \in {j \in 1..Len(Template(s)) : Template(s)[j].kind = "ref"}}

\* formatting a value inside an f-string: str(None) is "None", a string is itself
Format(v) == IF v.isNone THEN <<"None">> ELSE v.text

\* a mutant of Interpolate: only the first token of the artifact is threaded forward
InterpolateTruncated(v) ==
    IF v.isNone THEN <<"None">>
    ELSE IF Len(v.text) > 1 THEN SubSeq(v.text, 1, 1) ELSE v.text

\* the text an {self.outputs[key]} reference contributes to the message
Interpolate(v) == Format(v)

RECURSIVE RenderFrom(_, _, _)
\* the pieces i.. of template tpl rendered against context d (every referenced key present)
RenderFrom(tpl, d, i) ==
    IF i > Len(tpl) THEN <<>>
    ELSE (IF tpl[i].kind = "lit" THEN <<tpl[i].val>> ELSE Interpolate(Value(d, tpl[i].val)))
         \o RenderFrom(tpl, d, i + 1)

\* the user_message of phase s built from the context d
UserMessage(s, d) == RenderFrom(Template(s), d, 1)

\* building the message raises KeyError when a referenced key is not in self.outputs
RaisesKeyError(s, d) == \E k \in TemplateRefs(s) : ~HasKey(d, k)

\* a mutant of Preview: the test is >= instead of >
PreviewOffByOne(t) == IF Len(t) >= PreviewLimit THEN SubSeq(t, 1, PreviewLimit) \o <<"...">> ELSE t

\* text[:500] + "..." if len(text) > 500 else text
Preview(t) == IF Len(t) > PreviewLimit THEN SubSeq(t, 1, PreviewLimit) \o <<"...">> ELSE t

(* ------------------------------ the stages ----------------------------- *)
\* a mutant of RunOrder: the blueprint phase is called before the analysis phase
RunOrderSwapped == <<"research", "blueprint", "analysis", "review">>

\* the order in which run() calls the phases
RunOrder == <<"research", "analysis", "blueprint", "review">>

\* the order of the tasks=[...] list of the Crew
CrewTasks == <<"flight", "hotel", "itinerary", "budget">>

\* the stages in the order the running pipeline defines them
Defined(p) == IF p = "autogen" THEN AutogenStages ELSE CrewStages

\* the stages in the order the running pipeline executes them
Order(p) == IF p = "autogen" THEN RunOrder ELSE CrewTasks

\* a mutant of OutputKey: the review phase stores its artifact under the blueprint key
OutputKeyCopied(s) == IF s = "review" THEN "blueprint" ELSE s

\* the key under which the phase of stage s stores its artifact
OutputKey(s) == s

\* a completion call as issued: the stage, the user message, and what came back
Call(s, user) == [stage |-> s, user |-> user, status |-> "pending", ret |-> NoneVal]

\* no user message is built by this script (crewai builds its prompts itself)
NoMessage == <<>>

\* one printed item: a banner or diagnostic, with the text printed after it (previews)
Printed(what, text) == [what |-> what, text |-> text]

\* the items printed so far
Shown == {log[i].what : i \in 1..Len(log)}

\* no output file has been written by this run
NoFile == [exists |-> FALSE, title |-> <<>>, body |-> <<>>]

(* -------------------------------- Init --------------------------------- *)
Init ==
    /\ pipeline \in Pipelines
    /\ env \in [openaiInstalled : BOOLEAN, configValid : BOOLEAN]
    /\ params \in [destination : Destinations, trip_duration : Durations]
    /\ pipeline = "autogen" => params = [destination |-> "Iceland", trip_duration |-> "5 days"]
    /\ pipeline = "crewai" => env.openaiInstalled
    /\ pc = IF pipeline = "autogen" THEN "import" ELSE "main"
    /\ idx = 0
    /\ started = <<>>
    /\ calls = <<>>
    /\ outputs = <<>>
    /\ result = NoneVal
    /\ file = NoFile
    /\ log = <<>>
    /\ err = "none"
    /\ exitCode = "running"

(* ------------------- autogen_simple_demo.py: the script ---------------- *)
\* Config.validate_setup(): does the configuration (the credential) validate
validate_setup == env.configValid

\* a mutant of init_aborts: the "not" of the test is dropped
init_aborts_inverted == validate_setup

\* __init__: if not Config.validate_setup(): print, exit(1)
init_aborts == ~validate_setup

\* module import: try: from openai import OpenAI / except ImportError: print, exit(1)
ImportOpenAI ==
    /\ pipeline = "autogen" /\ pc = "import"
    /\ IF env.openaiInstalled
       THEN /\ pc' = "construct"
            /\ UNCHANGED <<log, exitCode>>
       ELSE /\ log' = Append(log, Printed("ERROR: OpenAI client is not installed!", <<>>))
            /\ exitCode' = "1"
            /\ pc' = "exited"
    /\ UNCHANGED <<pipeline, env, params, idx, started, calls, outputs, result, file, err>>

\* __init__: exit(1) raises SystemExit, which "except Exception" does not catch
SimpleInterviewPlatformWorkflow ==
    /\ pipeline = "autogen" /\ pc = "construct"
    /\ IF init_aborts
       THEN /\ log' = Append(log, Printed("ERROR: Configuration validation failed!", <<>>))
            /\ exitCode' = "1"
            /\ pc' = "exited"
            /\ UNCHANGED outputs
       ELSE /\ outputs' = <<>>
            /\ pc' = "run"
            /\ UNCHANGED <<log, exitCode>>
    /\ UNCHANGED <<pipeline, env, params, idx, started, calls, result, file, err>>

\* run(): the banner, then the phases in RunOrder
run ==
    /\ pipeline = "autogen" /\ pc = "run"
    /\ log' = Append(log, Printed("AUTOGEN INTERVIEW PLATFORM WORKFLOW - SIMPLIFIED DEMO", <<>>))
    /\ idx' = 1
    /\ pc' = "phase"
    /\ UNCHANGED <<pipeline, env, params, started, calls, outputs, result, file, err, exitCode>>

\* first half of a phase: banner, user_message built from self.outputs, request issued
PhaseCall(s) ==
    /\ pipeline = "autogen" /\ pc = "phase"
    /\ idx \in 1..Len(RunOrder) /\ RunOrder[idx] = s
    /\ started' = Append(started, s)
    /\ IF RaisesKeyError(s, outputs)
       THEN /\ err' = "KeyError"
            /\ pc' = "except"
            /\ UNCHANGED calls
       ELSE /\ calls' = Append(calls, Call(s, UserMessage(s, outputs)))
            /\ pc' = "await"
            /\ UNCHANGED err
    /\ UNCHANGED <<pipeline, env, params, idx, outputs, result, file, log, exitCode>>

\* a mutant of AfterPhase: a phase that raised is entered again (a retry)
AfterPhaseRetry(raised, i) ==
    IF raised THEN [pc |-> "phase", idx |-> i]
    ELSE [pc |-> IF i = Len(RunOrder) THEN "summary" ELSE "phase", idx |-> i + 1]

\* a mutant of AfterPhase: an exception of a phase is swallowed and run() goes on
AfterPhaseSwallow(raised, i) ==
    [pc |-> IF i = Len(RunOrder) THEN "summary" ELSE "phase", idx |-> i + 1]

\* where control goes when phase i ends: an exception leaves run() for the handler
\* of __main__ (no try inside the phases or run()), a return leads to the next call
AfterPhase(raised, i) ==
    IF raised THEN [pc |-> "except", idx |-> i]
    ELSE [pc |-> IF i = Len(RunOrder) THEN "summary" ELSE "phase", idx |-> i + 1]

\* second half of a phase: the request raises, or its content is stored and previewed
PhaseReturn(s) ==
    /\ pipeline = "autogen" /\ pc = "await"
    /\ idx \in 1..Len(RunOrder) /\ RunOrder[idx] = s
    /\ \/ /\ calls' = [calls EXCEPT ![Len(calls)].status = "raised"]
          /\ err' = "UpstreamError"
          /\ pc' = AfterPhase(TRUE, idx).pc
          /\ idx' = AfterPhase(TRUE, idx).idx
          /\ UNCHANGED <<outputs, log>>
       \/ \E v \in Contents(s) :
            /\ calls' = [calls EXCEPT ![Len(calls)].status = "returned", ![Len(calls)].ret = v]
            /\ outputs' = Put(outputs, OutputKey(s), v)
            /\ IF v.isNone
               THEN \* len(None) in the preview line raises TypeError
                    /\ err' = "TypeError"
                    /\ UNCHANGED log
               ELSE /\ log' = Append(log, Printed("Output", Preview(v.text)))
                    /\ UNCHANGED err
            /\ pc' = AfterPhase(v.isNone, idx).pc
            /\ idx' = AfterPhase(v.isNone, idx).idx
    /\ UNCHANGED <<pipeline, env, params, started, result, file, exitCode>>

phase_research == PhaseCall("research") \/ PhaseReturn("research")

phase_analysis == PhaseCall("analysis") \/ PhaseReturn("analysis")

phase_blueprint == PhaseCall("blueprint") \/ PhaseReturn("blueprint")

phase_review == PhaseCall("review") \/ PhaseReturn("review")

print_summary ==
    /\ pipeline = "autogen" /\ pc = "summary"
    /\ log' = Append(log, Printed("FINAL SUMMARY", <<>>))
    /\ pc' = "completed"
    /\ UNCHANGED <<pipeline, env, params, idx, started, calls, outputs, result, file, err, exitCode>>

\* __main__, after workflow.run() returned: the success line, then the script ends
MainCompleted ==
    /\ pipeline = "autogen" /\ pc = "completed"
    /\ log' = Append(log, Printed("Workflow completed successfully!", <<>>))
    /\ exitCode' = "0"
    /\ pc' = "exited"
    /\ UNCHANGED <<pipeline, env, params, idx, started, calls, outputs, result, file, err>>

\* __main__, except Exception: the diagnostic, the checklist, the traceback; the script ends
MainExcept ==
    /\ pipeline = "autogen" /\ pc = "except"
    /\ log' = log \o <<Printed("Error during workflow execution", <<err>>),
                       Printed("Troubleshooting:", <<>>)>>
    /\ exitCode' = "0"
    /\ pc' = "exited"
    /\ UNCHANGED <<pipeline, env, params, idx, started, calls, outputs, result, file, err>>

(* ---------------------- crewai_demo.py: main() ------------------------- *)
\* validate_config() of shared_config: does the configuration (the credential) validate
validate_config == env.configValid

\* a mutant of main_aborts: the "not" of the test is dropped
main_aborts_inverted == validate_config

\* main(): if not validate_config(): print, exit(1)
main_aborts == ~validate_config

\* main(): the banner and validate_config(); exit(1) on failure, outside any try
main_validate ==
    /\ pipeline = "crewai" /\ pc = "main"
    /\ IF main_aborts
       THEN /\ log' = log \o <<Printed("CrewAI Multi-Agent Travel Planning System (REAL API VERSION)", <<>>),
                               Printed("Configuration validation failed. Please set up your .env file.", <<>>)>>
            /\ exitCode' = "1"
            /\ pc' = "exited"
            /\ UNCHANGED idx
       ELSE /\ log' = log \o <<Printed("CrewAI Multi-Agent Travel Planning System (REAL API VERSION)", <<>>),
                               Printed("Configuration validated successfully!", <<>>)>>
            /\ idx' = 1
            /\ pc' = "task"
            /\ UNCHANGED exitCode
    /\ UNCHANGED <<pipeline, env, params, started, calls, outputs, result, file, err>>

\* where control goes when task i of the sequential crew ends: an exception leaves
\* kickoff for the except clause of main(), the last return makes kickoff return
AfterTask(raised, i) ==
    IF raised THEN [pc |-> "crew_except", idx |-> i]
    ELSE [pc |-> IF i = Len(CrewTasks) THEN "report" ELSE "task", idx |-> i + 1]

\* crew.kickoff, process="sequential": task s begins and its agent's request is issued
TaskCall(s) ==
    /\ pipeline = "crewai" /\ pc = "task"
    /\ idx \in 1..Len(CrewTasks) /\ CrewTasks[idx] = s
    /\ started' = Append(started, s)
    /\ calls' = Append(calls, Call(s, NoMessage))
    /\ pc' = "task_await"
    /\ UNCHANGED <<pipeline, env, params, idx, outputs, result, file, log, err, exitCode>>

\* crew.kickoff: the request of task s raises, or its text becomes the task's output;
\* the output of the last task is what kickoff returns
TaskReturn(s) ==
    /\ pipeline = "crewai" /\ pc = "task_await"
    /\ idx \in 1..Len(CrewTasks) /\ CrewTasks[idx] = s
    /\ \/ /\ calls' = [calls EXCEPT ![Len(calls)].status = "raised"]
          /\ err' = "Exception"
          /\ pc' = AfterTask(TRUE, idx).pc
          /\ idx' = AfterTask(TRUE, idx).idx
          /\ UNCHANGED <<outputs, result>>
       \/ \E t \in Texts(s) :
            /\ calls' = [calls EXCEPT ![Len(calls)].status = "returned", ![Len(calls)].ret = Str(t)]
            /\ outputs' = Put(outputs, s, Str(t))
            /\ result' = IF idx = Len(CrewTasks) THEN Str(t) ELSE result
            /\ pc' = AfterTask(FALSE, idx).pc
            /\ idx' = AfterTask(FALSE, idx).idx
            /\ UNCHANGED err
    /\ UNCHANGED <<pipeline, env, params, started, file, log, exitCode>>

kickoff == \E s \in {CrewTasks[i] : i \in 1..Len(CrewTasks)} : TaskCall(s) \/ TaskReturn(s)

\* main(), after kickoff returned: the success banner and the report are printed
main_report ==
    /\ pipeline = "crewai" /\ pc = "report"
    /\ log' = log \o <<Printed("Crew Execution Completed Successfully!", <<>>),
                       Printed("FINAL TRAVEL PLAN REPORT (Based on Real API Data):", Format(result))>>
    /\ pc' = "save"
    /\ UNCHANGED <<pipeline, env, params, idx, started, calls, outputs, result, file, err, exitCode>>

\* the title line written to the file, a literal of the script:
\* "Planning a 5-Day Trip to Iceland", cut where a duration and a destination stand
FileTitle == <<"Planning a ", "5-Day", " Trip to ", "Iceland">>

\* main(): with open(..., "w") as f: header and str(result); open may raise (OSError),
\* which the except clause of the same try catches
main_save ==
    /\ pipeline = "crewai" /\ pc = "save"
    /\ \/ /\ file' = [exists |-> TRUE, title |-> FileTitle, body |-> Format(result)]
          /\ log' = Append(log, Printed("Output saved to crewai_output.txt", <<>>))
          /\ exitCode' = "0"
          /\ pc' = "exited"
          /\ UNCHANGED err
       \/ /\ err' = "OSError"
          /\ pc' = "crew_except"
          /\ UNCHANGED <<file, log, exitCode>>
    /\ UNCHANGED <<pipeline, env, params, idx, started, calls, outputs, result>>

\* main(), except Exception: the diagnostic, the checklist, the traceback; main returns
main_except ==
    /\ pipeline = "crewai" /\ pc = "crew_except"
    /\ log' = log \o <<Printed("Error during crew execution", <<err>>),
                       Printed("Troubleshooting:", <<>>)>>
    /\ exitCode' = "0"
    /\ pc' = "exited"
    /\ UNCHANGED <<pipeline, env, params, idx, started, calls, outputs, result, file, err>>

(* --------------------------- the specification ------------------------- *)
Next ==
    \/ ImportOpenAI
    \/ SimpleInterviewPlatformWorkflow
    \/ run
    \/ phase_research
    \/ phase_analysis
    \/ phase_blueprint
    \/ phase_review
    \/ print_summary
    \/ MainCompleted
    \/ MainExcept
    \/ main_validate
    \/ kickoff
    \/ main_report
    \/ main_save
    \/ main_except

Spec == Init /\ [][Next]_vars

(* ------------------------------ the claims ----------------------------- *)
\* position of stage s in the definition order of the running pipeline
Position(s) == CHOOSE i \in 1..Len(Defined(pipeline)) : Defined(pipeline)[i] = s

\* the number of stages of the running pipeline
N == Len(Defined(pipeline))

\* C1: the stages execute strictly in definition order: the stages begun so far and
\* the calls issued so far are a prefix of the definition order, and whenever a stage
\* has begun (its prompt assembled, its call issued) the artifact of every stage
\* defined before it is already stored in the context.
C1_StrictlySequential ==
    /\ Len(started) <= N
    /\ Len(calls) <= Len(started)
    /\ \A i \in 1..Len(started) :
         /\ started[i] = Defined(pipeline)[i]
         /\ \A j \in 1..(i - 1) : HasKey(outputs, Defined(pipeline)[j])
    /\ \A i \in 1..Len(calls) : calls[i].stage = Defined(pipeline)[i]

\* the call of the last stage is in flight with the three earlier artifacts stored
C1_Witness ==
    /\ pipeline = "autogen" /\ pc = "await"
    /\ Len(calls) = 4 /\ calls[4].stage = "review" /\ Len(outputs) = 3

\* C2: the user message of every issued call contains, verbatim and untruncated, the
\* artifact of every stage its template references, each of them an earlier stage
\* (the analysis message contains the research text), and contains no non-empty
\* artifact of its own or of a later stage.
C2_PromptThreadsEarlierArtifacts ==
    pipeline = "autogen" =>
      \A i \in 1..Len(calls) :
        LET c == calls[i] IN
          /\ \A k \in TemplateRefs(c.stage) :
               /\ Position(k) < Position(c.stage)
               /\ HasKey(outputs, k)
               /\ ~Value(outputs, k).isNone
               /\ Contains(c.user, Value(outputs, k).text)
          /\ c.stage = "analysis" => Contains(c.user, Value(outputs, "research").text)
          /\ \A j \in Keys(outputs) :
               (Position(j) >= Position(c.stage)
                  /\ ~Value(outputs, j).isNone /\ Value(outputs, j).text # <<>>)
               => ~Contains(c.user, Value(outputs, j).text)

\* a finished run in which every stage returned its tagged text followed by a free token
C2_Witness ==
    /\ pipeline = "autogen" /\ pc = "exited" /\ Len(calls) = 4 /\ Len(outputs) = 4
    /\ \A i \in 1..4 : outputs[i].value = Str(StubText(outputs[i].key) \o <<"x">>)
    /\ Contains(calls[2].user, StubText("research") \o <<"x">>)

\* the interview workflow ran all of run() and printed its success line
AutogenSuccess ==
    /\ pipeline = "autogen" /\ pc = "exited"
    /\ "Workflow completed successfully!" \in Shown

\* C3: after a successful run the context has exactly N entries, one per stage, in
\* definition order, each the content returned by that stage's own completion call;
\* when every call returned "STAGE:<id>" the context is the one the scenario names.
C3_FinalContext ==
    AutogenSuccess =>
      /\ Len(outputs) = N /\ Len(calls) = N
      /\ \A i \in 1..Len(outputs) :
           /\ outputs[i].key = Defined(pipeline)[i]
           /\ calls[i].stage = outputs[i].key
           /\ calls[i].status = "returned"
           /\ outputs[i].value = calls[i].ret
      /\ (\A i \in 1..Len(calls) : calls[i].ret = Str(StubText(calls[i].stage)))
         => outputs = << [key |-> "research",  value |-> Str(<<"STAGE:", "research">>)],
                         [key |-> "analysis",  value |-> Str(<<"STAGE:", "analysis">>)],
                         [key |-> "blueprint", value |-> Str(<<"STAGE:", "blueprint">>)],
                         [key |-> "review",    value |-> Str(<<"STAGE:", "review">>)] >>

\* a successful run against the stub completion boundary
C3_Witness ==
    /\ AutogenSuccess
    /\ \A i \in 1..Len(calls) : calls[i].ret = Str(StubText(calls[i].stage))
    /\ Len(outputs) = 4

\* C4: if the completion call of stage k failed, it is the last call of the run,
\* stage k is the last stage that began, no artifact is stored for stage k or a later
\* stage, and no output file is written.
C4_FailureStopsThePipeline ==
    \A i \in 1..Len(calls) :
      calls[i].status = "raised" =>
        /\ i = Len(calls)
        /\ Len(started) = i
        /\ \A k \in Keys(outputs) : Position(k) < i
        /\ ~file.exists

\* a run that ended after the call of its third stage failed
C4_Witness ==
    /\ pc = "exited" /\ Len(calls) = 3 /\ calls[3].status = "raised"
    /\ Len(outputs) = 2

\* C5: if configuration validation fails, no stage begins, no completion call is
\* recorded and the context stays empty, in both pipelines, and the run is over
\* after the validation step.
C5_InvalidConfigurationRunsNothing ==
    ~env.configValid =>
      /\ started = <<>> /\ calls = <<>> /\ outputs = <<>>
      /\ pc \in {"import", "construct", "main", "exited"}

\* a run of the travel pipeline that ended on the failed validation
C5_Witness ==
    /\ ~env.configValid /\ pc = "exited" /\ pipeline = "crewai"
    /\ "Configuration validation failed. Please set up your .env file." \in Shown

\* a run of the interview pipeline that ended on the failed validation
C5_WitnessAutogen ==
    /\ ~env.configValid /\ pc = "exited" /\ pipeline = "autogen"
    /\ "ERROR: Configuration validation failed!" \in Shown

\* the stage whose phase or task is being executed
Current == Order(pipeline)[idx]

\* one step of the context: entries are only appended, one at a time, under the key
\* of the stage being executed, which was not yet present
ContextStep ==
    /\ Len(outputs') >= Len(outputs)
    /\ Len(outputs') <= Len(outputs) + 1
    /\ \A i \in 1..Len(outputs) : outputs'[i] = outputs[i]
    /\ Len(outputs') = Len(outputs) + 1 =>
         /\ idx \in 1..N
         /\ outputs'[Len(outputs')].key = Current
         /\ ~HasKey(outputs, Current)
    /\ (Len(calls') = Len(calls) /\ Len(calls) > 0 /\ calls'[Len(calls)].status = "raised")
         => outputs' = outputs

\* when the call of stage k failed the context holds exactly the stages 1..k-1
ContextAtFailure ==
    \A i \in 1..Len(calls) :
      calls[i].status = "raised" =>
        /\ Len(outputs) = i - 1
        /\ \A j \in 1..(i - 1) : outputs[j].key = Defined(pipeline)[j] /\ outputs[j].value = calls[j].ret

\* C6: the context grows monotonically: a step appends at most one entry, under the
\* key of the stage being executed, never overwrites or removes an entry, and a
\* failed completion call leaves the entries of the earlier stages as they were and
\* none for its own or a later stage.
C6_ContextMonotone == [][ContextStep]_vars /\ []ContextAtFailure

\* the call of the third stage failed with the two earlier entries in place
C6_Witness ==
    /\ pipeline = "autogen" /\ pc = "exited" /\ Len(calls) = 3
    /\ calls[3].status = "raised" /\ Len(outputs) = 2
    /\ outputs[1].key = "research" /\ outputs[2].key = "analysis"

\* C7: in the interview workflow every stage that began issued exactly one completion call, no stage has more
\* than one call, a failed call is the last call of the run, and a successful run of
\* the N stages made exactly N calls.
C7_OneCallPerStage ==
    pipeline = "autogen" =>
    /\ \A i, j \in 1..Len(calls) : calls[i].stage = calls[j].stage => i = j
    /\ Len(calls) = Len(started)
    /\ \A i \in 1..Len(calls) : calls[i].status = "raised" => i = Len(calls)
    /\ AutogenSuccess => Len(calls) = N

\* a run that ended on a failed call of the second stage, with two calls made in all
C7_Witness ==
    /\ pipeline = "autogen" /\ pc = "exited" /\ Len(calls) = 2
    /\ calls[2].status = "raised" /\ calls[1].status = "returned"

\* the content returned by a call is not usable: absent (None) or the empty string
Unusable(v) == v.isNone \/ v.text = <<>>

\* C8: when the completion client returns no usable content for a stage, the stage
\* fails with an EmptyResponseError, the empty value is not stored as the stage's
\* artifact, and no later stage begins.
C8_EmptyResponseRejected ==
    pipeline = "autogen" =>
      \A i \in 1..Len(calls) :
        (calls[i].status = "returned" /\ Unusable(calls[i].ret)) =>
          /\ err = "EmptyResponseError"
          /\ ~HasKey(outputs, calls[i].stage)
          /\ Len(started) = i

\* the research call returned the empty string and the analysis call was issued with it
C8_EmptyThreadedForward ==
    /\ pipeline = "autogen" /\ Len(calls) >= 2
    /\ calls[1].ret = Str(<<>>) /\ calls[1].status = "returned"
    /\ Value(outputs, "research") = Str(<<>>)
    /\ calls[2].user = <<"Market research findings:\n", "\n\nNow identify market opportunities and gaps.">>

\* the diagnostic and the troubleshooting checklist of the top-level handler were printed
ChecklistPrinted ==
    /\ "Troubleshooting:" \in Shown
    /\ \/ "Error during workflow execution" \in Shown
       \/ "Error during crew execution" \in Shown

\* the diagnostic of a failed configuration validation was printed
ConfigDiagnosticPrinted ==
    \/ "ERROR: Configuration validation failed!" \in Shown
    \/ "Configuration validation failed. Please set up your .env file." \in Shown

\* the run is over and ended on a failed configuration validation
EndedOnConfigurationError == pc = "exited" /\ env.openaiInstalled /\ ~env.configValid

\* the run is over and ended on an exception (a completion failure, an absent response, ...)
EndedOnException == pc = "exited" /\ err # "none"

\* C9 as stated: every run that ended in an error of the taxonomy, the configuration
\* error included, has printed the diagnostic and the troubleshooting checklist.
C9_EveryErrorPrintsChecklist ==
    (EndedOnConfigurationError \/ EndedOnException) => ChecklistPrinted

\* C9 amended: an exception raised while the stages run or the output is saved is
\* handled nowhere before the top-level handler (control is at the handler as long
\* as the exception is pending) and the run ends with the diagnostic and the
\* checklist printed last; a failed configuration validation prints its own
\* diagnostic and ends the run with status 1 without the checklist.
C9_ExceptionsReachTopLevelHandler ==
    /\ (err # "none" /\ pc # "exited") => pc \in {"except", "crew_except"}
    /\ EndedOnException =>
         /\ ChecklistPrinted
         /\ Len(log) >= 2
         /\ log[Len(log)].what = "Troubleshooting:"
         /\ log[Len(log) - 1].text = <<err>>
         /\ exitCode = "0"
    /\ EndedOnConfigurationError =>
         /\ ConfigDiagnosticPrinted /\ ~ChecklistPrinted /\ exitCode = "1" /\ err = "none"

\* a run of the interview workflow that ended in the handler after a failed third call
C9_Witness ==
    /\ pipeline = "autogen" /\ pc = "exited" /\ err = "UpstreamError"
    /\ Len(calls) = 3 /\ ChecklistPrinted

\* the summary banner of the running pipeline was printed
SummaryPrinted ==
    IF pipeline = "autogen" THEN "FINAL SUMMARY" \in Shown
    ELSE "Crew Execution Completed Successfully!" \in Shown

\* a stage raised: a failed completion call, or the preview of an absent content
StageRaised == err \in {"UpstreamError", "TypeError", "KeyError", "Exception"}

\* C10 as stated: a finished run has a non-zero status exactly when the configuration
\* validation failed, and every run whose configuration validated ended with status
\* zero and the summary banner printed.
C10_ZeroExitWithSummary ==
    (pc = "exited" /\ env.openaiInstalled) =>
      /\ exitCode # "0" <=> ~env.configValid
      /\ env.configValid => (exitCode = "0" /\ SummaryPrinted)

\* C10 amended: a finished run has a non-zero status exactly when the configuration
\* validation failed; a run whose configuration validated ended with status zero,
\* and printed the summary banner exactly when no stage raised.
C10_ZeroExitSummaryIfStagesCompleted ==
    (pc = "exited" /\ env.openaiInstalled) =>
      /\ exitCode \in {"0", "1"}
      /\ exitCode = "1" <=> ~env.configValid
      /\ env.configValid => (SummaryPrinted <=> ~StageRaised)
      /\ ~env.configValid => ~SummaryPrinted

\* a run of the travel pipeline ended with status zero after its second task raised
C10_Witness ==
    /\ pipeline = "crewai" /\ pc = "exited" /\ env.configValid
    /\ exitCode = "0" /\ StageRaised /\ Len(calls) = 2 /\ ~SummaryPrinted

\* every stage of the run issued its call, got its content back and raised nothing
AllStagesCompleted ==
    /\ Len(calls) = N /\ Len(outputs) = N
    /\ \A i \in 1..Len(calls) : calls[i].status = "returned"
    /\ ~StageRaised

\* C11: in both pipelines a finished run that completed all of its stages has
\* written one output file holding the run's output (the artifact of the last
\* stage), and a file exists only once all stages have finished.
C11_CompletedRunWritesFile ==
    /\ (pc = "exited" /\ AllStagesCompleted) =>
         (file.exists /\ file.body = Format(outputs[N].value))
    /\ file.exists => AllStagesCompleted

\* the interview workflow completed its four phases, printed its summary and its
\* success line, and ended without any file written
C11_AutogenWritesNothing ==
    /\ AutogenSuccess /\ AllStagesCompleted /\ "FINAL SUMMARY" \in Shown
    /\ ~file.exists

\* the travel pipeline completed its four tasks and ended without a file: open() raised
C11_CrewSaveFailed ==
    /\ pipeline = "crewai" /\ pc = "exited" /\ AllStagesCompleted
    /\ err = "OSError" /\ ~file.exists

\* the way the title line of the file writes a trip duration ("5 days" is "5-Day")
DurationInTitle(d) == IF d = "5 days" THEN "5-Day" ELSE "7-Day"

\* C14: the header of the file written by the travel pipeline names the destination
\* and the trip duration that were passed to main() for that run.
C14_HeaderEchoesParameters ==
    (pipeline = "crewai" /\ file.exists) =>
      /\ Contains(file.title, <<params.destination>>)
      /\ Contains(file.title, <<DurationInTitle(params.trip_duration)>>)

\* a run planned for 7 days in Japan wrote a file whose title names 5 days in Iceland
C14_HeaderNamesIceland ==
    /\ pipeline = "crewai" /\ pc = "exited" /\ file.exists
    /\ params = [destination |-> "Japan", trip_duration |-> "7 days"]
    /\ file.title = <<"Planning a ", "5-Day", " Trip to ", "Iceland">>

\* C15: a run of the travel pipeline never prints both the success banner and the
\* error diagnostic with its troubleshooting checklist.
C15_SuccessAndFailureExclusive ==
    pipeline = "crewai" =>
      ~ /\ "Crew Execution Completed Successfully!" \in Shown
        /\ "Error during crew execution" \in Shown
        /\ "Troubleshooting:" \in Shown

\* the crew completed, the success banner was printed, open() raised and the handler
\* printed the diagnostic and the checklist after it
C15_BothReportsPrinted ==
    /\ pipeline = "crewai" /\ pc = "exited" /\ err = "OSError"
    /\ \E i, j \in 1..Len(log) :
         /\ i < j
         /\ log[i].what = "Crew Execution Completed Successfully!"
         /\ log[j].what = "Error during crew execution"
    /\ ~file.exists

\* the artifact stored for the j-th stage of the definition order
Artifact(j) == Value(outputs, Defined(pipeline)[j]).text

\* C13 as stated: the request of every stage i > 1 contains the artifact of every
\* stage 1..i-1.
C13_AllPriorArtifactsThreaded ==
    pipeline = "autogen" =>
      \A i \in 2..Len(calls) : \A j \in 1..(i - 1) : Contains(calls[i].user, Artifact(j))

\* C13 amended: the request of every stage i > 1 contains the artifact of stage i-1
\* between its two literal pieces and nothing else, so it contains no non-empty
\* artifact of a stage before i-1 and its size does not grow with the depth.
C13_OnlyPreviousArtifactThreaded ==
    pipeline = "autogen" =>
      \A i \in 2..Len(calls) :
        /\ Contains(calls[i].user, Artifact(i - 1))
        /\ Len(calls[i].user) = Len(Artifact(i - 1)) + 2
        /\ \A j \in 1..(i - 2) : Artifact(j) # <<>> => ~Contains(calls[i].user, Artifact(j))

\* the review request was issued with three non-empty artifacts stored, and holds
\* the blueprint artifact but neither the research nor the analysis artifact
C13_Witness ==
    /\ pipeline = "autogen" /\ Len(calls) = 4 /\ calls[4].stage = "review"
    /\ \A j \in 1..3 : Artifact(j) = StubText(Defined(pipeline)[j]) \o <<"x">>
    /\ Contains(calls[4].user, Artifact(3))
    /\ ~Contains(calls[4].user, Artifact(1)) /\ ~Contains(calls[4].user, Artifact(2))

(* ------------- the preview of long artifacts (a second specification) ---------- *)
\* Here a token is one character, so that Len is the len() of the script.

\* the lengths of the contents returned: empty, one character, and around the threshold
Lengths == {0, 1} \cup ((PreviewLimit - Margin)..(PreviewLimit + Margin))

\* a content of n characters, each recognisable by its position
LongText(n) == [i \in 1..n |-> ToString(i)]

\* the interview workflow at its first phase, configuration validated
PreviewInit ==
    /\ pipeline = "autogen"
    /\ env = [openaiInstalled |-> TRUE, configValid |-> TRUE]
    /\ params = [destination |-> "Iceland", trip_duration |-> "5 days"]
    /\ pc = "phase"
    /\ idx = 1
    /\ started = <<>>
    /\ calls = <<>>
    /\ outputs = <<>>
    /\ result = NoneVal
    /\ file = NoFile
    /\ log = <<>>
    /\ err = "none"
    /\ exitCode = "running"

\* a whole phase whose call returns a content of one of the Lengths: the content is
\* stored under the phase's key and its preview is printed
PhaseLong(s) ==
    /\ pc = "phase" /\ idx \in 1..Len(RunOrder) /\ RunOrder[idx] = s
    /\ \E n \in Lengths :
         /\ started' = Append(started, s)
         /\ calls' = Append(calls, [stage |-> s, user |-> NoMessage, status |-> "returned",
                                    ret |-> Str(LongText(n))])
         /\ outputs' = Put(outputs, OutputKey(s), Str(LongText(n)))
         /\ log' = Append(log, Printed("Output", Preview(LongText(n))))
    /\ idx' = idx + 1
    /\ pc' = IF idx = Len(RunOrder) THEN "summary" ELSE "phase"
    /\ UNCHANGED <<pipeline, env, params, result, file, err, exitCode>>

long_research == PhaseLong("research")

long_analysis == PhaseLong("analysis")

long_blueprint == PhaseLong("blueprint")

long_review == PhaseLong("review")

PreviewNext ==
    \/ long_research
    \/ long_analysis
    \/ long_blueprint
    \/ long_review

SpecPreview == PreviewInit /\ [][PreviewNext]_vars

\* C12: the preview printed for each stage is the first 500 characters of its
\* artifact followed by "..." when the artifact is longer than 500 characters, and
\* the artifact unchanged otherwise; an ellipsis is printed exactly when L > 500.
C12_PreviewThreshold ==
    /\ Len(log) = Len(outputs)
    /\ \A i \in 1..Len(log) :
         LET a == outputs[i].value.text
             p == log[i].text
         IN /\ outputs[i].key = AutogenStages[i]
            /\ Len(a) > 500 => p = SubSeq(a, 1, 500) \o <<"...">>
            /\ Len(a) <= 500 => p = a
            /\ (Len(p) = 501 /\ p[Len(p)] = "...") <=> Len(a) > 500

\* the four phases have printed their previews: an artifact of exactly 500 characters
\* whole, one of 501 characters cut to 500 with the ellipsis
C12_Witness ==
    /\ Len(log) = 4
    /\ \E i, j \in 1..4 :
         /\ Len(outputs[i].value.text) = 500 /\ log[i].text = outputs[i].value.text
         /\ Len(outputs[j].value.text) = 501 /\ Len(log[j].text) = 501
         /\ log[j].text[501] = "..." /\ log[j].text[500] = "500"

====
